---- MODULE Spec2Model ----
(***************************************************************************)
(* Study session and gamification engine of the AI Study Buddy front end.  *)
(* The state is the module-level JavaScript state of the main page         *)
(* (studySession, userStats, the card lists), the browser's pending        *)
(* timers, the wall clock, and the DOM flags the handlers read and write.  *)
(* Every action is one event handler or one timer callback, run to         *)
(* completion (JavaScript is single threaded).                             *)
(***************************************************************************)
EXTENDS Integers, Sequences, FiniteSets, TLC

VARIABLES
    studySession,   \* let studySession = {active, startTime, currentCard, ...}
    userStats,      \* let userStats = {level, xp, streak, totalCards}
    currentUser,    \* let currentUser (loggedIn = FALSE models null)
    savedCards,     \* let savedCards = []
    generatedCards, \* let generatedCards = []
    todoItems,      \* let todoItems = []
    timetableItems, \* let timetableItems = []
    storage,        \* localStorage: the stored user record and auth token
    now,            \* Date.now(), in milliseconds
    timeouts,       \* pending setTimeout callbacks, in creation order
    intervals,      \* handles of the running setInterval timers
    dom,            \* hidden flags and the pause button label
    page,           \* "index" while the main page is loaded, "login" otherwise
    lastAward,      \* arguments of the latest awardXP call (showXPGain)
    summary,        \* what the latest endStudySession computed and reported
    hist            \* history: budgets and per-session bookkeeping

vars == <<studySession, userStats, currentUser, savedCards, generatedCards,
          todoItems, timetableItems, storage, now, timeouts, intervals, dom,
          page, lastAward, summary, hist>>

----------------------------------------------------------------------------
(* Bounds of the model *)

\* session engine alone: startStudySession calls and answerCard calls per run
MaxSessions == 2
MaxAnswers == 3
\* session engine with its functions also invoked directly: the same two budgets
DirectSessions == 1
DirectAnswers == 2
\* session engine with the study groups tab: the same two budgets, and visits
\* of the tab
GroupSessions == 2
GroupAnswers == 2
GroupVisits == 1
\* card creation alone: cards of one difficulty added before the run starts,
\* and card events per run
MaxBulk == 30
BulkEvents == 2
\* session engine with the pauses timed: the same two budgets
PauseSessions == 1
PauseAnswers == 2
\* the todo list alone: saveTodoItem, toggleTodo and deleteTodo calls per run
TodoEvents == 4
\* the timetable alone: saveTimetableItem calls per run
TimetableEvents == 2
\* login page and main page: handleLogin, handleSignup, handleLogout calls and
\* direct visits of index.html per run
LoginEvents == 4
\* whole application: startStudySession calls, answerCard calls and other user
\* events (cards, todos, groups, logout, login) per run
AppSessions == 1
AppAnswers == 1
AppEvents == 2
\* long idle waits (LongWait milliseconds each) per run
MaxLongWaits == 1
\* Date.now() when the page is loaded, in milliseconds
PageLoadTime == 1000000

(* Program constants *)

\* setTimeout(endStudySession, 1000)
SessionEndDelay == 1000
\* setTimeout(showCurrentCard, 500)
NextCardDelay == 500
\* setTimeout(startStudySession, 500)
StudyGroupDelay == 500
\* await new Promise(resolve => setTimeout(resolve, 1000)) in saveAllCards
SaveDelay == 1000
\* await new Promise(resolve => setTimeout(resolve, 2000)) in generateAIFlashcards
GenerateDelay == 2000
\* generateSampleCards(subject, difficulty, 5)
GenerateCount == 5
\* setTimeout(() => { window.location.href = 'login.html'; }, 1000)
LogoutRedirectDelay == 1000
\* the login page: 1000 ms of simulated authentication, 1500 ms to the redirect
LoginDelay == 2500
\* handleLogin: await new Promise(resolve => setTimeout(resolve, 1000))
LoginAwait == 1000
\* handleSignup: await new Promise(resolve => setTimeout(resolve, 1500))
SignupAwait == 1500
\* setTimeout(() => { window.location.href = 'index.html'; }, 1500)
IndexRedirectDelay == 1500
\* checkExistingAuth: the redirect of a user already logged in, after 1000 ms
ExistingAuthDelay == 1000
\* if (password.length < 6)
MinPasswordLength == 6
\* if (sessionDuration >= 600) sessionXP += 5
LongSessionSeconds == 600
\* if (accuracy >= 80) sessionXP += 10
HighAccuracy == 80
\* Math.floor(userStats.xp / 100) + 1
XpPerLevel == 100

\* the idle wait that takes a session past LongSessionSeconds
LongWait == LongSessionSeconds * 1000

\* null; Number(null) is 0, and timer handles and timestamps are positive
Null == -1
ToNumber(v) == IF v = Null THEN 0 ELSE v

Difficulties == {"easy", "medium", "hard"}

\* values that take XP away for a hard card
XP_VALUESWithPenalty(d) ==
    CASE d = "easy" -> 3
      [] d = "medium" -> 5
      [] d = "hard" -> 0 - 8

XP_VALUES(d) ==
    CASE d = "easy" -> 3
      [] d = "medium" -> 5
      [] d = "hard" -> 8

Card(s, d) == [subject |-> s, difficulty |-> d]

\* Object.keys(sampleQuestions), in insertion order
SampleSubjects == <<"math", "english", "spanish", "german", "science", "history">>

sampleQuestions(s) ==
    CASE s = "math" -> <<"medium", "hard", "easy">>
      [] s = "english" -> <<"medium", "hard", "easy">>
      [] s = "spanish" -> <<"easy", "hard", "easy">>
      [] s = "german" -> <<"easy", "medium", "easy">>
      [] s = "science" -> <<"medium", "easy", "hard">>
      [] s = "history" -> <<"easy", "easy", "medium">>

RECURSIVE FallbackDeck(_)
\* studyCards.push(...sampleQuestions[subject].map(q => ({...q, subject})))
FallbackDeck(i) ==
    IF i > Len(SampleSubjects) THEN <<>>
    ELSE LET s == SampleSubjects[i]
             q == sampleQuestions(s)
         IN  [k \in 1..Len(q) |-> Card(s, q[k])] \o FallbackDeck(i + 1)

\* function generateSampleCards(subject, difficulty, count): the questions of
\* the subject with that difficulty if there are count of them, else the first
\* count questions of the subject; every card gets the chosen difficulty
generateSampleCards(subject, difficulty, count) ==
    LET subjectQuestions == sampleQuestions(subject)
        filteredQuestions == SelectSeq(subjectQuestions, LAMBDA q : q = difficulty)
        slice(qs) == SubSeq(qs, 1, IF Len(qs) < count THEN Len(qs) ELSE count)
        questionsToUse == IF Len(filteredQuestions) >= count
                          THEN slice(filteredQuestions)
                          ELSE slice(subjectQuestions)
    IN  [k \in 1..Len(questionsToUse) |-> Card(subject, difficulty)]

RECURSIVE SumXP(_)
\* cards.reduce((sum, card) => sum + XP_VALUES[card.difficulty], 0)
SumXP(cards) ==
    IF cards = <<>> THEN 0
    ELSE XP_VALUES(Head(cards).difficulty) + SumXP(Tail(cards))

\* Math.floor(a / b) for a >= 0, b > 0
Floor(a, b) == a \div b

\* Math.floor in place of Math.round
FloorPercent(c, s) == (100 * c) \div s

\* Math.round((c / s) * 100) for 0 <= c, 0 < s: the nearest integer, halves up
RoundPercent(c, s) == (200 * c + s) \div (2 * s)

----------------------------------------------------------------------------
(* Values of the module-level state *)

\* a reset that leaves the session flagged active
IdleSessionStillActive ==
    [active |-> TRUE, startTime |-> Null, currentCard |-> 0, cardsStudied |-> 0,
     correctAnswers |-> 0, cards |-> <<>>, timer |-> Null]

\* the reset session object of endStudySession, equal to the initial one
IdleSession ==
    [active |-> FALSE, startTime |-> Null, currentCard |-> 0, cardsStudied |-> 0,
     correctAnswers |-> 0, cards |-> <<>>, timer |-> Null]

\* userStats as declared and as handleLogout resets it
FreshStats == [level |-> 1, xp |-> 0, streak |-> 0, totalCards |-> 0]

NoUser == [loggedIn |-> FALSE, level |-> 0, xp |-> 0, streak |-> 0]

\* handleLogin: userData = {level: 5, xp: 450, streak: 7, ...}
LoginUser == [loggedIn |-> TRUE, level |-> 5, xp |-> 450, streak |-> 7]

\* handleSignup: userData = {level: 1, xp: 0, streak: 0, ...}
SignupUser == [loggedIn |-> TRUE, level |-> 1, xp |-> 0, streak |-> 0]

\* the user records the login page stores: handleLogin and handleSignup
StoredUsers == {LoginUser, SignupUser}

\* localStorage without the two keys: getItem returns null for both
NoStoredUser ==
    [present |-> FALSE, level |-> 0, xp |-> 0, streak |-> 0, authToken |-> Null]

EmptyStorage == [user |-> NoStoredUser, token |-> Null]

\* localStorage after handleLogin or handleSignup has stored user u at time t:
\* userData.authToken = 'demo-token-' + Date.now(), kept under both keys
StoredAs(u, t) ==
    [user |-> [present |-> TRUE, level |-> u.level, xp |-> u.xp,
               streak |-> u.streak, authToken |-> t],
     token |-> t]

\* if (!token || !userData), negated
HasAuth(st) == st.token # Null /\ st.user.present

\* currentUser = JSON.parse(userData)
ParsedUser(st) ==
    [loggedIn |-> TRUE, level |-> st.user.level, xp |-> st.user.xp,
     streak |-> st.user.streak]

\* userStats = {level: currentUser.level, xp: currentUser.xp, ...}
CheckAuthStats(u) ==
    [level |-> u.level, xp |-> u.xp, streak |-> u.streak, totalCards |-> 0]

\* the session controls as endStudySession leaves them ("Reset UI"): TRUE is hidden
ResetDom(d) ==
    [d EXCEPT !.startBtn = FALSE, !.pauseBtn = TRUE, !.endBtn = TRUE,
              !.reviewInterface = TRUE, !.pauseLabel = "Pause"]

\* the card controls as showCurrentCard leaves them ("Reset card state")
CardDom(d) == [d EXCEPT !.revealBtn = FALSE, !.answerControls = TRUE]

\* the page once showCurrentCard has displayed card i: "Card i+1 of N"
ShownDom(d, i) == [CardDom(d) EXCEPT !.shownCard = i]

FreshDom ==
    [startBtn |-> FALSE, pauseBtn |-> TRUE, endBtn |-> TRUE, reviewInterface |-> TRUE,
     revealBtn |-> FALSE, answerControls |-> TRUE, pauseLabel |-> "Pause",
     groupsList |-> FALSE, saveDisabled |-> FALSE, shownCard |-> Null,
     generating |-> "none", notification |-> "none"]

NoAward == [amount |-> 0, reason |-> "", levelUp |-> FALSE, newLevel |-> 0]

NoSummary ==
    [reported |-> FALSE, wasActive |-> FALSE, deckSize |-> 0, cardsStudied |-> 0,
     correctAnswers |-> 0, accuracy |-> 0, duration |-> 0, sessionXP |-> 0]

\* what is left of the run's budget of user events, and the bookkeeping of the
\* current session: starts counts the sessions started; where trackPauses is
\* set, pausedAt is the time of the pause in force, pausedMs the length of the
\* pauses already resumed, and instantResume says that the latest resume came
\* at the instant of its pause
FreshHist(sessions, answers, events) ==
    [sessionsLeft |-> sessions, answersLeft |-> answers, eventsLeft |-> events,
     waitsLeft |-> MaxLongWaits,
     completions |-> 0, xpAtStart |-> 0, correctSum |-> 0, otherXP |-> FALSE,
     lastAnswer |-> "none",
     starts |-> 0, trackPauses |-> FALSE, pausedAt |-> Null, pausedMs |-> 0,
     instantResume |-> FALSE,
     todosMade |-> 0, todoXP |-> 0,
     lastCall |-> [n |-> 0, fn |-> "none", args |-> <<>>],
     authCheck |-> [n |-> 0, passed |-> FALSE]]

----------------------------------------------------------------------------
(* Timers *)

Timeout(fn, delay) == [fn |-> fn, due |-> now + delay]

\* setInterval returns a handle no running timer has
NewHandle == CHOOSE h \in 1..(Cardinality(intervals) + 1) : h \notin intervals

\* the pending callback the browser runs next: the earliest due, oldest first
IsNextTimeout(i) ==
    /\ i \in 1..Len(timeouts)
    /\ timeouts[i].due <= now
    /\ \A j \in 1..Len(timeouts) :
          \/ timeouts[j].due > timeouts[i].due
          \/ (timeouts[j].due = timeouts[i].due /\ j >= i)

Without(seq, i) == SubSeq(seq, 1, i - 1) \o SubSeq(seq, i + 1, Len(seq))

----------------------------------------------------------------------------
(* Gamification *)

\* const newLevel = Math.floor(userStats.xp / 100) + 1
LevelOf(xp) == Floor(xp, XpPerLevel) + 1

\* an award that never runs the level-up check
AwardedKeepingLevel(stats, amount, nCards) ==
    [stats EXCEPT !.xp = @ + amount, !.totalCards = nCards]

\* an award that assigns the amount instead of adding it
AwardedOverwriting(stats, amount, nCards) ==
    [stats EXCEPT !.xp = amount, !.totalCards = nCards, !.level = LevelOf(amount)]

\* an award that goes up one level at a time
AwardedOneLevel(stats, amount, nCards) ==
    LET xp == stats.xp + amount
    IN  [stats EXCEPT !.xp = xp, !.totalCards = nCards,
                      !.level = IF LevelOf(xp) > @ THEN @ + 1 ELSE @]

\* an award that takes the level from the amount alone
AwardedLevelOfAmount(stats, amount, nCards) ==
    [stats EXCEPT !.xp = @ + amount, !.totalCards = nCards,
                  !.level = LevelOf(amount)]

\* userStats after awardXP(amount): xp += amount; totalCards; the level-up check
Awarded(stats, amount, nCards) ==
    LET xp == stats.xp + amount
    IN  [stats EXCEPT !.xp = xp, !.totalCards = nCards,
                      !.level = IF LevelOf(xp) > @ THEN LevelOf(xp) ELSE @]

\* function awardXP(amount, reason); nCards is savedCards.length +
\* generatedCards.length at the call
awardXP(amount, reason, nCards) ==
    LET after == Awarded(userStats, amount, nCards)
        up == after.level # userStats.level
    IN  /\ userStats' = after
        /\ currentUser' = IF up /\ currentUser.loggedIn
                          THEN [currentUser EXCEPT !.level = after.level]
                          ELSE currentUser
        /\ lastAward' = [amount |-> amount, reason |-> reason, levelUp |-> up,
                         newLevel |-> after.level]

NCards == Len(savedCards) + Len(generatedCards)

\* updateUserDashboard(): const currentLevelXP = userStats.xp % 100
currentLevelXP == userStats.xp % 100

\* const progressPercentage = (currentLevelXP / 100) * 100, the width of the
\* level progress bar (the exact quotient; the floating point result is
\* within 1e-13 of it and within 0 and 99 for every currentLevelXP in 0..99)
progressPercentage == (currentLevelXP * 100) \div 100

\* a remaining XP that wraps to 0 at the start of a level
xpToNextWrapping == (100 - currentLevelXP) % 100

\* elements.xpToNext.textContent = 100 - currentLevelXP
xpToNext == 100 - currentLevelXP

----------------------------------------------------------------------------
(* Study session: the functions the handlers and callbacks run *)

\* the duration bonus only past ten minutes, not at ten minutes
SessionXPStrictDuration(cardsStudied, accuracy, sessionDuration) ==
    cardsStudied * 2
    + (IF accuracy >= HighAccuracy THEN 10 ELSE 0)
    + (IF sessionDuration > LongSessionSeconds THEN 5 ELSE 0)

\* let sessionXP = cardsStudied * 2; +10 for high accuracy; +5 for 10+ minutes
SessionXP(cardsStudied, accuracy, sessionDuration) ==
    cardsStudied * 2
    + (IF accuracy >= HighAccuracy THEN 10 ELSE 0)
    + (IF sessionDuration >= LongSessionSeconds THEN 5 ELSE 0)

\* accuracy = cardsStudied > 0 ? Math.round((correctAnswers / cardsStudied) * 100) : 0
Accuracy(correctAnswers, cardsStudied) ==
    IF cardsStudied > 0 THEN RoundPercent(correctAnswers, cardsStudied) ELSE 0

\* Math.floor((Date.now() - studySession.startTime) / 1000)
SessionDuration == Floor(now - ToNumber(studySession.startTime), 1000)

\* function endStudySession(): it does not look at studySession.active
endStudySession ==
    LET accuracy == Accuracy(studySession.correctAnswers, studySession.cardsStudied)
        sessionXP == SessionXP(studySession.cardsStudied, accuracy, SessionDuration)
    IN  /\ intervals' = IF studySession.timer # Null
                        THEN intervals \ {studySession.timer}
                        ELSE intervals
        /\ IF sessionXP > 0
           THEN awardXP(sessionXP, "Study session completed!", NCards)
           ELSE UNCHANGED <<userStats, currentUser, lastAward>>
        /\ summary' = [reported |-> TRUE, wasActive |-> studySession.active,
                       deckSize |-> Len(studySession.cards),
                       cardsStudied |-> studySession.cardsStudied,
                       correctAnswers |-> studySession.correctAnswers,
                       accuracy |-> accuracy, duration |-> SessionDuration,
                       sessionXP |-> sessionXP]
        /\ studySession' = IdleSession
        /\ dom' = ResetDom(dom)
        /\ hist' = [hist EXCEPT !.completions = @ + 1]

\* function showCurrentCard()
showCurrentCard ==
    IF studySession.currentCard >= Len(studySession.cards)
    THEN endStudySession
    ELSE /\ dom' = ShownDom(dom, studySession.currentCard)
         /\ UNCHANGED <<studySession, userStats, currentUser, intervals, lastAward,
                        summary, hist>>

\* a deck with the generated cards ahead of the saved ones
StudyCardsGeneratedFirst ==
    IF generatedCards \o savedCards = <<>>
    THEN FallbackDeck(1)
    ELSE generatedCards \o savedCards

\* let studyCards = [...savedCards, ...generatedCards], or the flattened samples
StudyCards ==
    IF savedCards \o generatedCards = <<>>
    THEN FallbackDeck(1)
    ELSE savedCards \o generatedCards

\* a start that keeps the counters and the position of the session before
startStudySessionKeepingCounts(h) ==
    IF Len(StudyCards) = 0
    THEN /\ hist' = h
         /\ UNCHANGED <<studySession, intervals, dom>>
    ELSE /\ studySession' = [studySession EXCEPT
                                !.active = TRUE, !.startTime = now,
                                !.cards = StudyCards, !.timer = NewHandle]
         /\ intervals' = intervals \cup {NewHandle}
         /\ dom' = ShownDom([dom EXCEPT !.startBtn = TRUE, !.pauseBtn = FALSE,
                                        !.endBtn = FALSE, !.reviewInterface = FALSE],
                             0)
         /\ hist' = [h EXCEPT !.completions = 0, !.xpAtStart = userStats.xp,
                              !.correctSum = 0, !.otherXP = FALSE,
                              !.lastAnswer = "none", !.starts = @ + 1,
                              !.pausedAt = Null, !.pausedMs = 0,
                              !.instantResume = FALSE]

\* async function startStudySession() (it awaits nothing); h is hist with the
\* caller's budget already taken
startStudySession(h) ==
    IF Len(StudyCards) = 0
    THEN /\ hist' = h
         /\ UNCHANGED <<studySession, intervals, dom>>
    ELSE /\ studySession' = [active |-> TRUE, startTime |-> now, currentCard |-> 0,
                             cardsStudied |-> 0, correctAnswers |-> 0,
                             cards |-> StudyCards, timer |-> NewHandle]
         /\ intervals' = intervals \cup {NewHandle}
         /\ dom' = ShownDom([dom EXCEPT !.startBtn = TRUE, !.pauseBtn = FALSE,
                                        !.endBtn = FALSE, !.reviewInterface = FALSE],
                             0)
         /\ hist' = [h EXCEPT !.completions = 0, !.xpAtStart = userStats.xp,
                              !.correctSum = 0, !.otherXP = FALSE,
                              !.lastAnswer = "none", !.starts = @ + 1,
                              !.pausedAt = Null, !.pausedMs = 0,
                              !.instantResume = FALSE]

\* const elapsed = Math.floor((Date.now() - studySession.startTime) / 1000),
\* which updateSessionTimer computes while the session is active
Elapsed == Floor(now - studySession.startTime, 1000)

\* a resume that starts the clock of the session again
pauseStudySessionRestartingClock ==
    LET cleared == IF studySession.timer # Null
                   THEN intervals \ {studySession.timer}
                   ELSE intervals
        h == CHOOSE x \in 1..(Cardinality(cleared) + 1) : x \notin cleared
    IN  /\ hist' = hist
        /\ IF dom.pauseLabel = "Pause"
           THEN /\ studySession' = [studySession EXCEPT !.timer = Null]
                /\ intervals' = cleared
                /\ dom' = [dom EXCEPT !.pauseLabel = "Resume"]
           ELSE /\ studySession' = [studySession EXCEPT !.timer = h,
                                                        !.startTime = now]
                /\ intervals' = cleared \cup {h}
                /\ dom' = [dom EXCEPT !.pauseLabel = "Pause"]

\* function pauseStudySession(): one button toggles pause and resume
pauseStudySession ==
    LET cleared == IF studySession.timer # Null
                   THEN intervals \ {studySession.timer}
                   ELSE intervals
        h == CHOOSE x \in 1..(Cardinality(cleared) + 1) : x \notin cleared
    IN  IF dom.pauseLabel = "Pause"
        THEN /\ studySession' = [studySession EXCEPT !.timer = Null]
             /\ intervals' = cleared
             /\ dom' = [dom EXCEPT !.pauseLabel = "Resume"]
             /\ hist' = IF hist.trackPauses
                        THEN [hist EXCEPT !.pausedAt = now]
                        ELSE hist
        ELSE /\ studySession' = [studySession EXCEPT !.timer = h]
             /\ intervals' = cleared \cup {h}
             /\ dom' = [dom EXCEPT !.pauseLabel = "Pause"]
             /\ hist' = IF hist.trackPauses
                        THEN [hist EXCEPT
                                !.pausedAt = Null,
                                !.pausedMs = IF hist.pausedAt # Null
                                             THEN @ + (now - hist.pausedAt) ELSE @,
                                !.instantResume = (hist.pausedAt = now)]
                        ELSE hist

\* counters that count every answer as correct, and only correct ones as studied
CountedAsCorrect(s, isCorrect) ==
    [s EXCEPT !.cardsStudied = IF isCorrect THEN @ + 1 ELSE @,
              !.correctAnswers = @ + 1]

\* counters that count an answer only if the card at the position is on
\* display with its answer revealed
CountedOnlyRevealed(s, isCorrect) ==
    IF dom.shownCard = s.currentCard /\ dom.revealBtn
    THEN [s EXCEPT !.cardsStudied = @ + 1,
                   !.correctAnswers = IF isCorrect THEN @ + 1 ELSE @]
    ELSE s

\* studySession.cardsStudied++; if (isCorrect) studySession.correctAnswers++
Counted(s, isCorrect) ==
    [s EXCEPT !.cardsStudied = @ + 1,
              !.correctAnswers = IF isCorrect THEN @ + 1 ELSE @]

\* function answerCard(isCorrect)
answerCard(isCorrect) ==
    LET i == studySession.currentCard
        hasCard == i < Len(studySession.cards)
        counted == Counted(studySession, isCorrect)
    IN  IF isCorrect /\ ~hasCard
        THEN \* card is undefined: card.difficulty throws and the handler stops
             /\ studySession' = counted
             /\ hist' = [hist EXCEPT !.answersLeft = @ - 1, !.lastAnswer = "correct"]
             /\ UNCHANGED <<userStats, currentUser, lastAward, timeouts>>
        ELSE /\ studySession' = [counted EXCEPT !.currentCard = @ + 1]
             /\ IF isCorrect
                THEN awardXP(XP_VALUES(studySession.cards[i + 1].difficulty),
                             "Correct answer!", NCards)
                ELSE UNCHANGED <<userStats, currentUser, lastAward>>
             /\ timeouts' = Append(timeouts,
                    IF i + 1 >= Len(studySession.cards)
                    THEN Timeout("endStudySession", SessionEndDelay)
                    ELSE Timeout("showCurrentCard", NextCardDelay))
             /\ hist' = [hist EXCEPT
                    !.answersLeft = @ - 1,
                    !.lastAnswer = IF isCorrect THEN "correct" ELSE "incorrect",
                    !.correctSum = IF isCorrect
                        THEN @ + XP_VALUES(studySession.cards[i + 1].difficulty)
                        ELSE @]

----------------------------------------------------------------------------
(* Actions: the user's events *)

OnIndex == page = "index"

\* click on start-session-btn
ClickStart ==
    /\ OnIndex /\ ~dom.startBtn
    /\ hist.sessionsLeft > 0
    /\ startStudySession([hist EXCEPT !.sessionsLeft = @ - 1])
    /\ UNCHANGED <<userStats, currentUser, savedCards, generatedCards, todoItems,
                   timetableItems, storage, now, timeouts, page, lastAward,
                   summary>>

\* click on pause-session-btn
ClickPause ==
    /\ OnIndex /\ ~dom.pauseBtn
    /\ pauseStudySession
    /\ UNCHANGED <<userStats, currentUser, savedCards, generatedCards, todoItems,
                   timetableItems, storage, now, timeouts, page, lastAward,
                   summary>>

\* pauseStudySession() invoked while no session is active (the pause button
\* is hidden then; the function itself does not look at studySession.active)
CallPauseIdle ==
    /\ OnIndex /\ ~studySession.active
    /\ pauseStudySession
    /\ UNCHANGED <<userStats, currentUser, savedCards, generatedCards, todoItems,
                   timetableItems, storage, now, timeouts, page, lastAward,
                   summary>>

\* answerCard(isCorrect) invoked while no session is active (the answer
\* buttons are hidden then; the function itself does not look at
\* studySession.active)
CallAnswerIdle(isCorrect) ==
    /\ OnIndex /\ ~studySession.active
    /\ hist.answersLeft > 0
    /\ answerCard(isCorrect)
    /\ UNCHANGED <<savedCards, generatedCards, todoItems, timetableItems, storage,
                   now, intervals, dom, page, summary>>

\* click on end-session-btn
ClickEnd ==
    /\ OnIndex /\ ~dom.endBtn
    /\ endStudySession
    /\ UNCHANGED <<savedCards, generatedCards, todoItems, timetableItems, storage,
                   now, timeouts, page>>

\* click on reveal-answer-btn: function revealAnswer()
ClickReveal ==
    /\ OnIndex /\ ~dom.reviewInterface /\ ~dom.revealBtn
    /\ dom' = [dom EXCEPT !.revealBtn = TRUE, !.answerControls = FALSE]
    /\ UNCHANGED <<studySession, userStats, currentUser, savedCards,
                   generatedCards, todoItems, timetableItems, storage, now,
                   timeouts, intervals, page, lastAward, summary, hist>>

\* click on correct-btn or incorrect-btn
ClickAnswer(isCorrect) ==
    /\ OnIndex /\ ~dom.reviewInterface /\ ~dom.answerControls
    /\ hist.answersLeft > 0
    /\ answerCard(isCorrect)
    /\ UNCHANGED <<savedCards, generatedCards, todoItems, timetableItems, storage,
                   now, intervals, dom, page, summary>>

\* an addManualCard that also puts the card into the deck of the session
AddManualCardToSession(d) ==
    /\ OnIndex
    /\ hist.eventsLeft > 0
    /\ generatedCards' = Append(generatedCards, Card("math", d))
    /\ studySession' = [studySession EXCEPT !.cards = Append(@, Card("math", d))]
    /\ hist' = [hist EXCEPT !.eventsLeft = @ - 1]
    /\ UNCHANGED <<userStats, currentUser, savedCards, todoItems, timetableItems,
                   storage, now, timeouts, intervals, dom, page, lastAward,
                   summary>>

\* click on add-manual-btn: function addManualCard(), with both texts filled in
AddManualCard(d) ==
    /\ OnIndex
    /\ hist.eventsLeft > 0
    /\ generatedCards' = Append(generatedCards, Card("math", d))
    /\ hist' = [hist EXCEPT !.eventsLeft = @ - 1]
    /\ UNCHANGED <<studySession, userStats, currentUser, savedCards, todoItems,
                   timetableItems, storage, now, timeouts, intervals, dom, page,
                   lastAward, summary>>

\* click on generate-ai-btn, with notes entered and difficulty d selected:
\* generateAIFlashcards() up to its await; the button is disabled until the
\* generation has finished, and dom.generating holds the difficulty it was
\* called with
ClickGenerate(d) ==
    /\ OnIndex /\ dom.generating = "none"
    /\ hist.eventsLeft > 0
    /\ dom' = [dom EXCEPT !.generating = d]
    /\ timeouts' = Append(timeouts, Timeout("generateAIFlashcards", GenerateDelay))
    /\ hist' = [hist EXCEPT !.eventsLeft = @ - 1]
    /\ UNCHANGED <<studySession, userStats, currentUser, savedCards,
                   generatedCards, todoItems, timetableItems, storage, now,
                   intervals, page, lastAward, summary>>

\* click on a generated card's remove button: function removeGeneratedCard(index)
RemoveGeneratedCard(index) ==
    /\ OnIndex
    /\ hist.eventsLeft > 0
    /\ index \in 0..(Len(generatedCards) - 1)
    /\ generatedCards' = Without(generatedCards, index + 1)
    /\ hist' = [hist EXCEPT !.eventsLeft = @ - 1]
    /\ UNCHANGED <<studySession, userStats, currentUser, savedCards, todoItems,
                   timetableItems, storage, now, timeouts, intervals, dom, page,
                   lastAward, summary>>

\* click on clear-all-btn: function clearAllCards() (with no generated card it
\* changes nothing of the state)
ClearAllCards ==
    /\ OnIndex
    /\ hist.eventsLeft > 0
    /\ generatedCards # <<>>
    /\ generatedCards' = <<>>
    /\ hist' = [hist EXCEPT !.eventsLeft = @ - 1]
    /\ UNCHANGED <<studySession, userStats, currentUser, savedCards, todoItems,
                   timetableItems, storage, now, timeouts, intervals, dom, page,
                   lastAward, summary>>

\* click on save-cards-btn: saveAllCards() up to its await; the button is
\* disabled until the save has finished
ClickSave ==
    /\ OnIndex /\ ~dom.saveDisabled
    /\ hist.eventsLeft > 0
    /\ generatedCards # <<>>
    /\ dom' = [dom EXCEPT !.saveDisabled = TRUE]
    /\ timeouts' = Append(timeouts, Timeout("saveAllCards", SaveDelay))
    /\ hist' = [hist EXCEPT !.eventsLeft = @ - 1]
    /\ UNCHANGED <<studySession, userStats, currentUser, savedCards,
                   generatedCards, todoItems, timetableItems, storage, now,
                   intervals, page, lastAward, summary>>

\* click on save-todo-btn: function saveTodoItem(), with title and date filled in
SaveTodoItem ==
    /\ OnIndex
    /\ hist.eventsLeft > 0
    /\ todoItems' = Append(todoItems, [id |-> now, completed |-> FALSE])
    /\ hist' = [hist EXCEPT !.eventsLeft = @ - 1, !.todosMade = @ + 1]
    /\ UNCHANGED <<studySession, userStats, currentUser, savedCards, generatedCards,
                   timetableItems, storage, now, timeouts, intervals, dom, page,
                   lastAward, summary>>

\* todoItems.find(t => t.id === id): the index of the first match, 0 if none
FindTodo(id) ==
    IF \E k \in 1..Len(todoItems) : todoItems[k].id = id
    THEN CHOOSE k \in 1..Len(todoItems) :
            /\ todoItems[k].id = id
            /\ \A j \in 1..(k - 1) : todoItems[j].id # id
    ELSE 0

\* change of a todo's checkbox: function toggleTodo(id)
ToggleTodo(id) ==
    LET k == FindTodo(id)
    IN  /\ OnIndex
        /\ hist.eventsLeft > 0
        /\ k # 0
        /\ todoItems' = [todoItems EXCEPT ![k].completed = ~@]
        /\ IF ~todoItems[k].completed
           THEN awardXP(2, "Task completed!", NCards)
           ELSE UNCHANGED <<userStats, currentUser, lastAward>>
        /\ hist' = [hist EXCEPT !.eventsLeft = @ - 1,
                                !.otherXP = @ \/ ~todoItems[k].completed,
                                !.todoXP = IF ~todoItems[k].completed
                                           THEN @ + 2 ELSE @]
        /\ UNCHANGED <<studySession, savedCards, generatedCards, timetableItems,
                       storage, now, timeouts, intervals, dom, page, summary>>

\* click on a todo's delete button: function deleteTodo(id)
DeleteTodo(id) ==
    /\ OnIndex
    /\ hist.eventsLeft > 0
    /\ todoItems' = SelectSeq(todoItems, LAMBDA t : t.id # id)
    /\ hist' = [hist EXCEPT !.eventsLeft = @ - 1]
    /\ UNCHANGED <<studySession, userStats, currentUser, savedCards, generatedCards,
                   timetableItems, storage, now, timeouts, intervals, dom, page,
                   lastAward, summary>>

\* a JavaScript string is the sequence of its character codes; a < b on two
\* strings compares them code by code, a proper prefix being the smaller
StringLess(a, b) ==
    \/ Len(a) < Len(b) /\ \A j \in 1..Len(a) : a[j] = b[j]
    \/ \E k \in 1..Len(a) :
          /\ k <= Len(b)
          /\ a[k] < b[k]
          /\ \A j \in 1..(k - 1) : a[j] = b[j]

\* the value of a time input: "HH:MM", or "" while no time is selected
TimeString(h, m) ==
    <<48 + (h \div 10), 48 + (h % 10), 58, 48 + (m \div 10), 48 + (m % 10)>>

TimeInputs ==
    {<<>>} \cup {TimeString(h, m) : h \in {9, 10, 23}, m \in {0, 30}}

\* a validation that rejects only a start time after the end time
TimetableInputValidAllowingEqual(startTime, endTime) ==
    /\ startTime # <<>> /\ endTime # <<>>
    /\ ~StringLess(endTime, startTime)

\* saveTimetableItem(): neither if (!startTime || !endTime) nor
\* if (startTime >= endTime) returns with an error
TimetableInputValid(startTime, endTime) ==
    /\ startTime # <<>> /\ endTime # <<>>
    /\ StringLess(startTime, endTime)

\* click on save-timetable-btn: function saveTimetableItem(), with the two
\* time inputs holding startTime and endTime
SaveTimetableItem(startTime, endTime) ==
    /\ OnIndex
    /\ hist.eventsLeft > 0
    /\ IF TimetableInputValid(startTime, endTime)
       THEN /\ timetableItems' = Append(timetableItems,
                                        [id |-> now, startTime |-> startTime,
                                         endTime |-> endTime])
            /\ dom' = [dom EXCEPT !.notification = "success"]
       ELSE /\ timetableItems' = timetableItems
            /\ dom' = [dom EXCEPT !.notification = "error"]
    /\ hist' = [hist EXCEPT !.eventsLeft = @ - 1,
                            !.lastCall = [n |-> @.n + 1, fn |-> "saveTimetableItem",
                                          args |-> <<startTime, endTime>>]]
    /\ UNCHANGED <<studySession, userStats, currentUser, savedCards, generatedCards,
                   todoItems, storage, now, timeouts, intervals, page, lastAward,
                   summary>>

\* switchSection('groups'): loadGroups() lists a Study button per group of
\* saved cards
LoadGroups ==
    /\ OnIndex
    /\ hist.eventsLeft > 0
    /\ dom.groupsList # (savedCards # <<>>)
    /\ dom' = [dom EXCEPT !.groupsList = (savedCards # <<>>)]
    /\ hist' = [hist EXCEPT !.eventsLeft = @ - 1]
    /\ UNCHANGED <<studySession, userStats, currentUser, savedCards,
                   generatedCards, todoItems, timetableItems, storage, now,
                   timeouts, intervals, page, lastAward, summary>>

\* click on a group's Study button: function studyGroup(groupName)
StudyGroup ==
    /\ OnIndex /\ dom.groupsList
    /\ hist.sessionsLeft > 0
    /\ timeouts' = Append(timeouts, Timeout("startStudySession", StudyGroupDelay))
    /\ hist' = [hist EXCEPT !.sessionsLeft = @ - 1]
    /\ UNCHANGED <<studySession, userStats, currentUser, savedCards,
                   generatedCards, todoItems, timetableItems, storage, now,
                   intervals, dom, page, lastAward, summary>>

\* a logout that removes the token and leaves the user record stored
HandleLogoutKeepingUser ==
    /\ page = "index" /\ currentUser.loggedIn
    /\ hist.eventsLeft > 0
    /\ currentUser' = NoUser
    /\ generatedCards' = <<>>
    /\ savedCards' = <<>>
    /\ userStats' = FreshStats
    /\ storage' = [storage EXCEPT !.token = Null]
    /\ timeouts' = Append(timeouts, Timeout("redirect", LogoutRedirectDelay))
    /\ hist' = [hist EXCEPT !.eventsLeft = @ - 1,
                            !.lastCall = [n |-> @.n + 1, fn |-> "handleLogout",
                                          args |-> <<>>]]
    /\ UNCHANGED <<studySession, todoItems, timetableItems, now, intervals, dom,
                   page, lastAward, summary>>

\* click on logout-btn: function handleLogout() (the later definition, which
\* is the one in force)
HandleLogout ==
    /\ OnIndex /\ currentUser.loggedIn
    /\ hist.eventsLeft > 0
    /\ currentUser' = NoUser
    /\ generatedCards' = <<>>
    /\ savedCards' = <<>>
    /\ userStats' = FreshStats
    /\ storage' = EmptyStorage
    /\ timeouts' = Append(timeouts, Timeout("redirect", LogoutRedirectDelay))
    /\ hist' = [hist EXCEPT !.eventsLeft = @ - 1,
                            !.lastCall = [n |-> @.n + 1, fn |-> "handleLogout",
                                          args |-> <<>>]]
    /\ UNCHANGED <<studySession, todoItems, timetableItems, now, intervals, dom,
                   page, lastAward, summary>>

----------------------------------------------------------------------------
(* Actions: timer callbacks and the clock *)

\* the callback of setTimeout(endStudySession, 1000)
TimeoutEnd(i) ==
    /\ OnIndex /\ IsNextTimeout(i) /\ timeouts[i].fn = "endStudySession"
    /\ endStudySession
    /\ timeouts' = Without(timeouts, i)
    /\ UNCHANGED <<savedCards, generatedCards, todoItems, timetableItems, storage,
                   now, page>>

\* the callback of setTimeout(showCurrentCard, 500)
TimeoutShow(i) ==
    /\ OnIndex /\ IsNextTimeout(i) /\ timeouts[i].fn = "showCurrentCard"
    /\ showCurrentCard
    /\ timeouts' = Without(timeouts, i)
    /\ UNCHANGED <<savedCards, generatedCards, todoItems, timetableItems, storage,
                   now, page>>

\* the callback of setTimeout(startStudySession, 500)
TimeoutStart(i) ==
    /\ OnIndex /\ IsNextTimeout(i) /\ timeouts[i].fn = "startStudySession"
    /\ startStudySession(hist)
    /\ timeouts' = Without(timeouts, i)
    /\ UNCHANGED <<userStats, currentUser, savedCards, generatedCards, todoItems,
                   timetableItems, storage, now, page, lastAward, summary>>

\* a save that leaves the generated cards in place after saving them
TimeoutSaveKeepingGenerated(i) ==
    /\ OnIndex /\ IsNextTimeout(i) /\ timeouts[i].fn = "saveAllCards"
    /\ savedCards' = savedCards \o generatedCards
    /\ awardXP(SumXP(generatedCards), "Cards saved!",
               Len(savedCards \o generatedCards) + Len(generatedCards))
    /\ generatedCards' = generatedCards
    /\ dom' = [dom EXCEPT !.saveDisabled = FALSE]
    /\ hist' = [hist EXCEPT !.otherXP = TRUE]
    /\ timeouts' = Without(timeouts, i)
    /\ UNCHANGED <<studySession, todoItems, timetableItems, storage, now,
                   intervals, page, summary>>

\* saveAllCards() after its await
TimeoutSave(i) ==
    /\ OnIndex /\ IsNextTimeout(i) /\ timeouts[i].fn = "saveAllCards"
    /\ savedCards' = savedCards \o generatedCards
    /\ awardXP(SumXP(generatedCards), "Cards saved!",
               Len(savedCards \o generatedCards) + Len(generatedCards))
    /\ generatedCards' = <<>>
    /\ dom' = [dom EXCEPT !.saveDisabled = FALSE]
    /\ hist' = [hist EXCEPT !.otherXP = TRUE]
    /\ timeouts' = Without(timeouts, i)
    /\ UNCHANGED <<studySession, todoItems, timetableItems, storage, now,
                   intervals, page, summary>>

\* generateAIFlashcards() after its await
TimeoutGenerate(i) ==
    /\ OnIndex /\ IsNextTimeout(i) /\ timeouts[i].fn = "generateAIFlashcards"
    /\ generatedCards' = generateSampleCards("math", dom.generating, GenerateCount)
    /\ dom' = [dom EXCEPT !.generating = "none"]
    /\ timeouts' = Without(timeouts, i)
    /\ UNCHANGED <<studySession, userStats, currentUser, savedCards, todoItems,
                   timetableItems, storage, now, intervals, page, lastAward,
                   summary, hist>>

\* the timers of the login page once it has loaded: checkExistingAuth()
\* schedules the redirect to index.html when both keys are stored
LoginPageTimers ==
    IF HasAuth(storage) THEN <<Timeout("index", ExistingAuthDelay)>> ELSE <<>>

\* window.location.href = 'login.html': the page, its state and its timers
\* are gone, and the login page loads
TimeoutRedirect(i) ==
    /\ OnIndex /\ IsNextTimeout(i) /\ timeouts[i].fn = "redirect"
    /\ page' = "login"
    /\ studySession' = IdleSession
    /\ userStats' = FreshStats
    /\ currentUser' = NoUser
    /\ savedCards' = <<>>
    /\ generatedCards' = <<>>
    /\ todoItems' = <<>>
    /\ timetableItems' = <<>>
    /\ timeouts' = LoginPageTimers
    /\ intervals' = {}
    /\ dom' = FreshDom
    /\ lastAward' = NoAward
    /\ summary' = NoSummary
    /\ hist' = [hist EXCEPT !.completions = 0, !.xpAtStart = 0, !.correctSum = 0,
                            !.otherXP = FALSE, !.lastAnswer = "none",
                            !.pausedAt = Null, !.pausedMs = 0,
                            !.instantResume = FALSE]
    /\ UNCHANGED <<now, storage>>

\* handleLogin / handleSignup on the login page store user u and redirect;
\* index.html loads again and initializeApp runs checkAuthStatus
LoginAndLoad(u) ==
    /\ page = "login"
    /\ hist.eventsLeft > 0
    /\ page' = "index"
    /\ currentUser' = u
    /\ userStats' = CheckAuthStats(u)
    /\ now' = now + LoginDelay
    /\ storage' = StoredAs(u, now + LoginDelay - IndexRedirectDelay)
    /\ hist' = [hist EXCEPT !.eventsLeft = @ - 1]
    /\ UNCHANGED <<studySession, savedCards, generatedCards, todoItems,
                   timetableItems, timeouts, intervals, dom, lastAward, summary>>

----------------------------------------------------------------------------
(* The login page *)

OnLogin == page = "login"

\* the white space String.prototype.trim removes: tab, line feed, carriage
\* return and space
WhiteSpace == {9, 10, 13, 32}

\* a username or email taken as typed
untrimmed(s) == s

\* value.trim()
RECURSIVE trim(_)
trim(s) ==
    IF s = <<>> THEN s
    ELSE IF Head(s) \in WhiteSpace THEN trim(Tail(s))
    ELSE IF s[Len(s)] \in WhiteSpace THEN trim(SubSeq(s, 1, Len(s) - 1))
    ELSE s

\* what the user has typed into the fields of the two forms
Usernames == {<<>>, <<32>>, <<97>>, <<32, 97, 32>>}
Emails == {<<>>, <<32>>, <<101, 64, 102>>}
Passwords == {<<>>, [k \in 1..5 |-> 112], [k \in 1..6 |-> 112]}

\* handleLogin(): if (!username || !password) does not return
LoginInputValid(username, password) ==
    trim(username) # <<>> /\ password # <<>>

\* handleSignup(): neither if (!username || !email || !password) nor
\* if (password.length < 6) returns
SignupInputValid(username, email, password) ==
    /\ trim(username) # <<>> /\ trim(email) # <<>> /\ password # <<>>
    /\ Len(password) >= MinPasswordLength

\* handleLogin() up to its await, called by a click on login-btn or by Enter
\* in the password field (which calls it also while the button is disabled)
HandleLogin(username, password) ==
    /\ OnLogin
    /\ hist.eventsLeft > 0
    /\ IF LoginInputValid(username, password)
       THEN /\ timeouts' = Append(timeouts, Timeout("handleLogin", LoginAwait))
            /\ dom' = dom
       ELSE /\ timeouts' = timeouts
            /\ dom' = [dom EXCEPT !.notification = "error"]
    /\ hist' = [hist EXCEPT !.eventsLeft = @ - 1,
                            !.lastCall = [n |-> @.n + 1, fn |-> "handleLogin",
                                          args |-> <<username, password>>]]
    /\ UNCHANGED <<studySession, userStats, currentUser, savedCards, generatedCards,
                   todoItems, timetableItems, storage, now, intervals, page,
                   lastAward, summary>>

\* handleSignup() up to its await, called by a click on signup-btn or by Enter
\* in the password field
HandleSignup(username, email, password) ==
    /\ OnLogin
    /\ hist.eventsLeft > 0
    /\ IF SignupInputValid(username, email, password)
       THEN /\ timeouts' = Append(timeouts, Timeout("handleSignup", SignupAwait))
            /\ dom' = dom
       ELSE /\ timeouts' = timeouts
            /\ dom' = [dom EXCEPT !.notification = "error"]
    /\ hist' = [hist EXCEPT !.eventsLeft = @ - 1,
                            !.lastCall = [n |-> @.n + 1, fn |-> "handleSignup",
                                          args |-> <<username, email, password>>]]
    /\ UNCHANGED <<studySession, userStats, currentUser, savedCards, generatedCards,
                   todoItems, timetableItems, storage, now, intervals, page,
                   lastAward, summary>>

\* handleLogin() after its await: both keys are stored, the redirect is scheduled
TimeoutLogin(i) ==
    /\ OnLogin /\ IsNextTimeout(i) /\ timeouts[i].fn = "handleLogin"
    /\ storage' = StoredAs(LoginUser, now)
    /\ timeouts' = Append(Without(timeouts, i), Timeout("index", IndexRedirectDelay))
    /\ dom' = [dom EXCEPT !.notification = "success"]
    /\ UNCHANGED <<studySession, userStats, currentUser, savedCards, generatedCards,
                   todoItems, timetableItems, now, intervals, page, lastAward,
                   summary, hist>>

\* handleSignup() after its await
TimeoutSignup(i) ==
    /\ OnLogin /\ IsNextTimeout(i) /\ timeouts[i].fn = "handleSignup"
    /\ storage' = StoredAs(SignupUser, now)
    /\ timeouts' = Append(Without(timeouts, i), Timeout("index", IndexRedirectDelay))
    /\ dom' = [dom EXCEPT !.notification = "success"]
    /\ UNCHANGED <<studySession, userStats, currentUser, savedCards, generatedCards,
                   todoItems, timetableItems, now, intervals, page, lastAward,
                   summary, hist>>

\* index.html loads: the login page and its timers are gone, and
\* initializeApp() runs checkAuthStatus(), which either takes the stored user
\* or sends the browser back to login.html
LoadIndex(h) ==
    /\ IF HasAuth(storage)
       THEN /\ page' = "index"
            /\ currentUser' = ParsedUser(storage)
            /\ userStats' = CheckAuthStats(ParsedUser(storage))
            /\ timeouts' = <<>>
       ELSE /\ page' = "login"
            /\ currentUser' = NoUser
            /\ userStats' = FreshStats
            /\ timeouts' = LoginPageTimers
    /\ hist' = [h EXCEPT !.authCheck = [n |-> @.n + 1, passed |-> HasAuth(storage)]]
    /\ studySession' = IdleSession
    /\ savedCards' = <<>>
    /\ generatedCards' = <<>>
    /\ todoItems' = <<>>
    /\ timetableItems' = <<>>
    /\ intervals' = {}
    /\ dom' = FreshDom
    /\ lastAward' = NoAward
    /\ summary' = NoSummary
    /\ UNCHANGED <<now, storage>>

\* the callback window.location.href = 'index.html' of the login page
TimeoutIndex(i) ==
    /\ OnLogin /\ IsNextTimeout(i) /\ timeouts[i].fn = "index"
    /\ LoadIndex(hist)

\* the user opens index.html while the login page is shown
OpenIndex ==
    /\ OnLogin
    /\ hist.eventsLeft > 0
    /\ LoadIndex([hist EXCEPT !.eventsLeft = @ - 1])

\* time passes on the login page, up to the next pending callback
AdvanceLogin(d) ==
    /\ OnLogin
    /\ d > 0
    /\ timeouts # <<>>
    /\ \A i \in 1..Len(timeouts) : timeouts[i].due >= now + d
    /\ now' = now + d
    /\ UNCHANGED <<studySession, userStats, currentUser, savedCards, generatedCards,
                   todoItems, timetableItems, storage, timeouts, intervals, dom,
                   page, lastAward, summary, hist>>

----------------------------------------------------------------------------
(* The clock of the main page *)

\* time passes: d milliseconds, never past a pending callback's due time; with
\* no callback pending the model only tries the long wait
Advance(d) ==
    /\ OnIndex
    /\ d > 0
    /\ \A i \in 1..Len(timeouts) : timeouts[i].due >= now + d
    /\ IF timeouts = <<>>
       THEN d = LongWait /\ hist.waitsLeft > 0 /\ hist' = [hist EXCEPT !.waitsLeft = @ - 1]
       ELSE hist' = hist
    /\ now' = now + d
    /\ UNCHANGED <<studySession, userStats, currentUser, savedCards,
                   generatedCards, todoItems, timetableItems, storage, timeouts,
                   intervals, dom, page, lastAward, summary>>

\* the waits the model tries: to a pending callback's due time, or a long wait
Waits == {timeouts[i].due - now : i \in 1..Len(timeouts)} \cup {LongWait}

----------------------------------------------------------------------------
(* Specifications *)

\* decks the user has added and saved (one saveAllCards) before the run starts
InitialDecks ==
    { <<>>,
      <<Card("math", "easy"), Card("math", "hard")>>,
      <<Card("math", "medium"), Card("math", "easy"), Card("math", "hard")>>,
      <<Card("math", "hard"), Card("math", "hard"), Card("math", "hard"),
        Card("math", "hard"), Card("math", "hard"), Card("math", "medium")>> }

\* the main page after initializeApp for stored user u, and after the user
\* has added the cards of deck and saved them (nothing if deck is empty)
InitFor(u, deck, budget) ==
    LET saved == deck # <<>>
        stats == IF saved
                 THEN Awarded(CheckAuthStats(u), SumXP(deck), 2 * Len(deck))
                 ELSE CheckAuthStats(u)
    IN  /\ studySession = IdleSession
        /\ userStats = stats
        /\ currentUser = [u EXCEPT !.level = stats.level]
        /\ savedCards = deck
        /\ generatedCards = <<>>
        /\ todoItems = <<>>
        /\ timetableItems = <<>>
        /\ storage = StoredAs(u, PageLoadTime - IndexRedirectDelay)
        /\ now = PageLoadTime + (IF saved THEN SaveDelay ELSE 0)
        /\ timeouts = <<>>
        /\ intervals = {}
        /\ dom = FreshDom
        /\ page = "index"
        /\ lastAward = IF saved
                       THEN [amount |-> SumXP(deck), reason |-> "Cards saved!",
                             levelUp |-> stats.level # u.level,
                             newLevel |-> stats.level]
                       ELSE NoAward
        /\ summary = NoSummary
        /\ hist = budget

Init ==
    \E u \in StoredUsers : \E deck \in InitialDecks :
        InitFor(u, deck, FreshHist(MaxSessions, MaxAnswers, 0))

PauseInit ==
    \E u \in StoredUsers : \E deck \in InitialDecks :
        InitFor(u, deck, [FreshHist(PauseSessions, PauseAnswers, 0)
                            EXCEPT !.trackPauses = TRUE])

DirectInit ==
    \E u \in StoredUsers : \E deck \in InitialDecks :
        InitFor(u, deck, FreshHist(DirectSessions, DirectAnswers, 0))

GroupInit ==
    \E u \in StoredUsers : \E deck \in InitialDecks :
        InitFor(u, deck, FreshHist(GroupSessions, GroupAnswers, GroupVisits))

\* the main page after initializeApp for stored user u, and after the user
\* has added n cards of difficulty d
BulkInit ==
    \E u \in StoredUsers : \E n \in 0..MaxBulk : \E d \in Difficulties :
        /\ studySession = IdleSession
        /\ userStats = CheckAuthStats(u)
        /\ currentUser = u
        /\ savedCards = <<>>
        /\ generatedCards = [k \in 1..n |-> Card("math", d)]
        /\ todoItems = <<>>
        /\ timetableItems = <<>>
        /\ storage = StoredAs(u, PageLoadTime - IndexRedirectDelay)
        /\ now = PageLoadTime
        /\ timeouts = <<>>
        /\ intervals = {}
        /\ dom = FreshDom
        /\ page = "index"
        /\ lastAward = NoAward
        /\ summary = NoSummary
        /\ hist = FreshHist(0, 0, BulkEvents)

AppInit ==
    \E u \in StoredUsers : \E deck \in InitialDecks :
        InitFor(u, deck, FreshHist(AppSessions, AppAnswers, AppEvents))

\* the session engine: its buttons, its callbacks and the clock
SessionStep ==
    \/ ClickStart
    \/ ClickPause
    \/ ClickEnd
    \/ ClickReveal
    \/ \E isCorrect \in BOOLEAN : ClickAnswer(isCorrect)
    \/ \E i \in 1..Len(timeouts) : TimeoutEnd(i)
    \/ \E i \in 1..Len(timeouts) : TimeoutShow(i)
    \/ \E d \in Waits : Advance(d)

\* the rest of the main page: cards, todos, groups, logout and login
AppStep ==
    \/ \E d \in Difficulties : AddManualCard(d)
    \/ \E d \in Difficulties : ClickGenerate(d)
    \/ \E index \in 0..(Len(generatedCards) - 1) : RemoveGeneratedCard(index)
    \/ ClearAllCards
    \/ ClickSave
    \/ SaveTodoItem
    \/ \E k \in 1..Len(todoItems) : ToggleTodo(todoItems[k].id)
    \/ LoadGroups
    \/ StudyGroup
    \/ HandleLogout
    \/ \E i \in 1..Len(timeouts) : TimeoutStart(i)
    \/ \E i \in 1..Len(timeouts) : TimeoutSave(i)
    \/ \E i \in 1..Len(timeouts) : TimeoutGenerate(i)
    \/ \E i \in 1..Len(timeouts) : TimeoutRedirect(i)
    \/ \E u \in StoredUsers : LoginAndLoad(u)

Next == SessionStep

Spec == Init /\ [][Next]_vars

\* the session engine with the time spent paused recorded
PauseSpec == PauseInit /\ [][Next]_vars

\* the session engine with its functions also invoked while their buttons are
\* hidden
DirectNext ==
    \/ SessionStep
    \/ CallPauseIdle
    \/ \E isCorrect \in BOOLEAN : CallAnswerIdle(isCorrect)

DirectSpec == DirectInit /\ [][DirectNext]_vars

\* the session engine with the sessions that the study groups tab starts
GroupNext ==
    \/ SessionStep
    \/ LoadGroups
    \/ StudyGroup
    \/ \E i \in 1..Len(timeouts) : TimeoutStart(i)

GroupSpec == GroupInit /\ [][GroupNext]_vars

\* adding cards and saving them
BulkNext ==
    \/ \E d \in Difficulties : AddManualCard(d)
    \/ \E d \in Difficulties : ClickGenerate(d)
    \/ \E index \in 0..(Len(generatedCards) - 1) : RemoveGeneratedCard(index)
    \/ ClearAllCards
    \/ ClickSave
    \/ \E i \in 1..Len(timeouts) : TimeoutSave(i)
    \/ \E i \in 1..Len(timeouts) : TimeoutGenerate(i)
    \/ \E d \in Waits : Advance(d)

BulkSpec == BulkInit /\ [][BulkNext]_vars

\* the todo list
TodoInit ==
    \E u \in StoredUsers : InitFor(u, <<>>, FreshHist(0, 0, TodoEvents))

TodoNext ==
    \/ SaveTodoItem
    \/ \E k \in 1..Len(todoItems) : ToggleTodo(todoItems[k].id)
    \/ \E k \in 1..Len(todoItems) : DeleteTodo(todoItems[k].id)
    \/ \E d \in Waits : Advance(d)

TodoSpec == TodoInit /\ [][TodoNext]_vars

\* the timetable
TimetableInit ==
    \E u \in StoredUsers : InitFor(u, <<>>, FreshHist(0, 0, TimetableEvents))

TimetableNext ==
    \/ \E startTime \in TimeInputs : \E endTime \in TimeInputs :
          SaveTimetableItem(startTime, endTime)
    \/ \E d \in Waits : Advance(d)

TimetableSpec == TimetableInit /\ [][TimetableNext]_vars

\* the login page with nothing stored, and the main page it leads to
LoginInit ==
    /\ page = "login"
    /\ storage = EmptyStorage
    /\ studySession = IdleSession
    /\ userStats = FreshStats
    /\ currentUser = NoUser
    /\ savedCards = <<>>
    /\ generatedCards = <<>>
    /\ todoItems = <<>>
    /\ timetableItems = <<>>
    /\ now = PageLoadTime
    /\ timeouts = <<>>
    /\ intervals = {}
    /\ dom = FreshDom
    /\ lastAward = NoAward
    /\ summary = NoSummary
    /\ hist = FreshHist(0, 0, LoginEvents)

LoginNext ==
    \/ \E username \in Usernames : \E password \in Passwords :
          HandleLogin(username, password)
    \/ \E username \in Usernames : \E email \in Emails : \E password \in Passwords :
          HandleSignup(username, email, password)
    \/ \E i \in 1..Len(timeouts) : TimeoutLogin(i)
    \/ \E i \in 1..Len(timeouts) : TimeoutSignup(i)
    \/ \E i \in 1..Len(timeouts) : TimeoutIndex(i)
    \/ OpenIndex
    \/ \E d \in Waits : AdvanceLogin(d)
    \/ HandleLogout
    \/ \E i \in 1..Len(timeouts) : TimeoutRedirect(i)
    \/ \E d \in Waits : Advance(d)

LoginSpec == LoginInit /\ [][LoginNext]_vars

AppNext == SessionStep \/ AppStep

AppSpec == AppInit /\ [][AppNext]_vars

\* the browser runs every pending callback once it is due, and time passes
TimerStep ==
    \/ \E i \in 1..Len(timeouts) : TimeoutEnd(i)
    \/ \E i \in 1..Len(timeouts) : TimeoutShow(i)
    \/ \E i \in 1..Len(timeouts) : Advance(timeouts[i].due - now)

LiveSpec == Spec /\ WF_vars(TimerStep)

----------------------------------------------------------------------------
(* Properties *)

\* a step in which endStudySession ran
EndRan == hist'.completions = hist.completions + 1

\* a step in which answerCard ran
AnswerRan == hist'.answersLeft = hist.answersLeft - 1

\* C1: in every reachable state the level is floor(xp / 100) + 1, i.e. xp lies
\* in the hundred that belongs to the level
C1_LevelIsDerivedFromXP ==
    /\ userStats.level >= 1
    /\ 100 * (userStats.level - 1) <= userStats.xp
    /\ userStats.xp < 100 * userStats.level

\* C1 witness: a correct answer has taken the user to the next level
C1_Witness ==
    /\ lastAward.levelUp
    /\ lastAward.reason = "Correct answer!"
    /\ userStats.level = 6
    /\ userStats.xp >= 500

\* every card of the deck has been answered, by exactly as many calls
AnsweredAll ==
    /\ studySession.active
    /\ studySession.currentCard = Len(studySession.cards)
    /\ studySession.cardsStudied = Len(studySession.cards)

\* C2: once the N cards of a deck have had their N answers the session ends
\* with no further event from the user, and the end reports N cards studied
C2_SessionEndsAfterLastAnswer ==
    /\ AnsweredAll ~> ~studySession.active
    /\ [][(AnsweredAll /\ EndRan) =>
            summary'.cardsStudied = Len(studySession.cards)]_vars

\* C2 witness: a three-card session has ended and reported three cards
C2_Witness ==
    /\ ~studySession.active
    /\ summary.reported /\ summary.wasActive
    /\ summary.deckSize = 3
    /\ summary.cardsStudied = 3
    /\ hist.completions = 1

\* C3: endStudySession run while no session is active awards nothing
C3_EndWhileIdleAwardsNothing ==
    [][(EndRan /\ ~studySession.active) =>
          /\ userStats' = userStats
          /\ summary'.sessionXP = 0]_vars

\* C4: a started session is completed at most once
C4_CompletedAtMostOnce == hist.completions <= 1

\* C5: the end of a session computes 2 * cardsStudied, plus 10 from 80 percent
\* accuracy, plus 5 from 600 seconds, and awards it exactly when it is positive
C5_BonusRule ==
    [][EndRan =>
        LET bonus == 2 * studySession.cardsStudied
                     + (IF summary'.accuracy >= 80 THEN 10 ELSE 0)
                     + (IF summary'.duration >= 600 THEN 5 ELSE 0)
        IN  /\ summary'.sessionXP = bonus
            /\ IF bonus > 0
               THEN /\ userStats'.xp = userStats.xp + bonus
                    /\ lastAward'.amount = bonus
                    /\ lastAward'.reason = "Study session completed!"
               ELSE /\ userStats' = userStats
                    /\ lastAward' = lastAward]_vars

\* C5 witness: a session of ten minutes with every answer right got both extras
C5_Witness ==
    /\ summary.reported /\ summary.wasActive
    /\ summary.cardsStudied = 2
    /\ summary.accuracy = 100
    /\ summary.duration = 600
    /\ summary.sessionXP = 19
    /\ lastAward.amount = 19

C7_AnswerCountsAndAwards ==
    [][(AnswerRan /\ studySession.active) =>
          /\ studySession'.cardsStudied = studySession.cardsStudied + 1
          /\ studySession'.currentCard = studySession.currentCard + 1
          /\ IF hist'.lastAnswer = "correct"
             THEN /\ studySession'.correctAnswers = studySession.correctAnswers + 1
                  /\ lastAward'.reason = "Correct answer!"
                  /\ lastAward'.amount \in {3, 5, 8}
                  /\ userStats'.xp = userStats.xp + lastAward'.amount
             ELSE /\ studySession'.correctAnswers = studySession.correctAnswers
                  /\ userStats'.xp = userStats.xp]_vars

\* C8: when a session ends, the XP gained since its start is the values of the
\* cards answered correctly plus the bonus of the end
C8_SessionXPAccounting ==
    [][(EndRan /\ studySession.active /\ ~hist.otherXP) =>
          userStats'.xp = hist.xpAtStart + hist.correctSum + summary'.sessionXP]_vars

\* C8 witness: a session with a correct answer has ended and its XP adds up
C8_Witness ==
    /\ summary.reported /\ summary.wasActive
    /\ summary.correctAnswers >= 1
    /\ hist.correctSum >= 3
    /\ summary.sessionXP > 0
    /\ userStats.xp = hist.xpAtStart + hist.correctSum + summary.sessionXP

\* C9: the position stays within the deck
C9_PositionWithinDeck ==
    /\ 0 <= studySession.currentCard
    /\ studySession.currentCard <= Len(studySession.cards)

\* C10: a session records no more answers than its deck has cards
C10_AnswersWithinDeck == studySession.cardsStudied <= Len(studySession.cards)

\* C11: a session never counts more correct answers than answers
C11_CorrectWithinAnswered ==
    studySession.correctAnswers <= studySession.cardsStudied

\* C11 witness: a session holds both a correct and an incorrect answer
C11_Witness ==
    /\ studySession.active
    /\ studySession.correctAnswers = 1
    /\ studySession.cardsStudied = 2

\* C12: a started session whose position has reached the end of its deck is
\* no longer active
C12_EndedAtDeckEnd ==
    studySession.active =>
        studySession.currentCard # Len(studySession.cards)

\* C13: every answer is given to the card on display: when answerCard runs in
\* an active session, showCurrentCard has displayed the card at the position
C13_AnswerIsForDisplayedCard ==
    [][(AnswerRan /\ studySession.active) =>
          dom.shownCard = studySession.currentCard]_vars

\* the time the current session has spent paused, in milliseconds
PausedTotal ==
    hist.pausedMs + (IF hist.pausedAt # Null THEN now - hist.pausedAt ELSE 0)

\* C14: the duration a session ends with leaves out the time the session was
\* paused
C14_PausedTimeNotCounted ==
    [][(EndRan /\ studySession.active) =>
          summary'.duration * 1000 <= now - studySession.startTime - PausedTotal]_vars

\* a step in which pauseStudySession paused or resumed the active session
PauseRan ==
    /\ studySession.active /\ studySession'.active
    /\ dom'.pauseLabel # dom.pauseLabel

\* C15: a pause and a resume each leave the elapsed time, the counters and the
\* position of the session as they were, so a pause and its resume with no
\* time between them do
C15_PauseResumeKeepsElapsed ==
    [][PauseRan =>
          /\ Elapsed' = Elapsed
          /\ studySession'.startTime = studySession.startTime
          /\ studySession'.cardsStudied = studySession.cardsStudied
          /\ studySession'.correctAnswers = studySession.correctAnswers
          /\ studySession'.currentCard = studySession.currentCard
          /\ studySession'.cards = studySession.cards]_vars

\* C15 witness: ten minutes and one answer into a session, it has been
\* paused and resumed in the same instant
C15_Witness ==
    /\ studySession.active
    /\ studySession.timer # Null
    /\ dom.pauseLabel = "Pause"
    /\ hist.instantResume
    /\ hist.pausedMs = 0
    /\ studySession.cardsStudied = 1
    /\ Elapsed = 600

\* C16: pauseStudySession invoked while no session is active changes nothing
\* of the session and starts no interval timer
C16_PauseWhileIdleIsNoOp ==
    [][(~studySession.active /\ ~EndRan /\ dom'.pauseLabel # dom.pauseLabel) =>
          /\ studySession' = studySession
          /\ intervals' = intervals]_vars

\* C17: at most one session interval is running, and none while no session
\* is active
C17_IntervalsCleanedUp ==
    /\ Cardinality(intervals) <= 1
    /\ ~studySession.active => intervals = {}

\* a step in which startStudySession started a session
StartRan == hist'.starts = hist.starts + 1

\* C19: the deck of a new session is the saved cards followed by the generated
\* cards; with neither, it is the sample cards of math, english, spanish,
\* german, science and history, in this order
C19_DeckOrder ==
    [][StartRan =>
        LET c(s, d) == [subject |-> s, difficulty |-> d]
            samples ==
                << c("math", "medium"), c("math", "hard"), c("math", "easy"),
                   c("english", "medium"), c("english", "hard"), c("english", "easy"),
                   c("spanish", "easy"), c("spanish", "hard"), c("spanish", "easy"),
                   c("german", "easy"), c("german", "medium"), c("german", "easy"),
                   c("science", "medium"), c("science", "easy"), c("science", "hard"),
                   c("history", "easy"), c("history", "easy"), c("history", "medium") >>
        IN  studySession'.cards =
                IF Len(savedCards) + Len(generatedCards) > 0
                THEN savedCards \o generatedCards
                ELSE samples]_vars

\* C19 witness: a session runs on two saved cards followed by a generated one
C19_Witness ==
    /\ studySession.active
    /\ Len(savedCards) = 2
    /\ Len(generatedCards) = 1
    /\ generatedCards[1].difficulty = "medium"
    /\ savedCards[1].difficulty = "easy"
    /\ studySession.cards = savedCards \o generatedCards

\* C20: while a session is active and the page lives, no step but the start
\* of a session or its end changes the deck of the session; the handlers of
\* the card lists and of logout, and their delayed parts, leave it alone
C20_DeckFixedDuringSession ==
    [][(studySession.active /\ ~StartRan /\ ~EndRan /\ page' = "index") =>
          studySession'.cards = studySession.cards]_vars

\* C20 witness: during a session on two saved cards a third card was added
\* and saved, and the session still has its two cards
C20_Witness ==
    /\ studySession.active
    /\ Len(studySession.cards) = 2
    /\ Len(savedCards) = 3
    /\ generatedCards = <<>>
    /\ lastAward.reason = "Cards saved!"
    /\ studySession.cards = SubSeq(savedCards, 1, 2)

\* C21: within a session the cards come on display one after the other: the
\* index of the card on display only ever moves from i to i + 1
C21_CardsShownInOrder ==
    [][(dom'.shownCard # dom.shownCard /\ ~StartRan) =>
          dom'.shownCard = dom.shownCard + 1]_vars

\* C22: answerCard reads the card at the position only where the deck has one
C22_NoMissingCardRead ==
    [][(AnswerRan /\ studySession.active /\ hist'.lastAnswer = "correct") =>
          studySession.currentCard < Len(studySession.cards)]_vars

\* a step in which awardXP ran (no step of logout or login)
AwardRan ==
    /\ currentUser.loggedIn /\ currentUser'.loggedIn
    /\ lastAward' # lastAward \/ userStats'.xp # userStats.xp

\* C23: awardXP adds the amount to the XP; it signals a level-up exactly when
\* floor(xp / 100) + 1 of the new XP is above the level before, and the one
\* signal carries that final level, however many levels were crossed
C23_AwardAndLevelUp ==
    [][AwardRan =>
        LET xp == userStats.xp + lastAward'.amount
            newLevel == (xp \div 100) + 1
        IN  /\ userStats'.xp = xp
            /\ lastAward'.levelUp = (newLevel > userStats.level)
            /\ IF newLevel > userStats.level
               THEN /\ userStats'.level = newLevel
                    /\ lastAward'.newLevel = newLevel
               ELSE userStats'.level = userStats.level]_vars

\* C23 witness: saving thirty hard cards took a new user from level 1 to
\* level 3 in one award
C23_Witness ==
    /\ lastAward.reason = "Cards saved!"
    /\ lastAward.amount = 240
    /\ lastAward.levelUp
    /\ lastAward.newLevel = 3
    /\ userStats.level = 3
    /\ userStats.xp = 240

\* C24: no award lowers the level
C24_LevelNeverDecreases ==
    [][AwardRan => userStats'.level >= userStats.level]_vars

\* C24 witness: a correct answer took the user to level 6, and the award of
\* the end of the session left the level there
C24_Witness ==
    /\ userStats.level = 6
    /\ currentUser.level = 6
    /\ lastAward.reason = "Study session completed!"
    /\ ~lastAward.levelUp
    /\ hist.xpAtStart < 500
    /\ userStats.xp >= 500

\* C25: while the user is logged in the XP is never negative and no step,
\* of the session engine or of any other handler, lowers or resets it
C25_XPNeverDecreases ==
    [][(currentUser.loggedIn /\ currentUser'.loggedIn) =>
          /\ userStats'.xp >= userStats.xp
          /\ userStats'.xp >= 0]_vars

\* C25 witness: a session has been started and ended, and the XP the user had
\* before it is still there, with the XP of the session on top
C25_Witness ==
    /\ currentUser.loggedIn
    /\ ~studySession.active
    /\ summary.reported /\ summary.wasActive
    /\ hist.xpAtStart >= 450
    /\ userStats.xp > hist.xpAtStart

\* a step in which revealAnswer ran
RevealRan == ~dom.revealBtn /\ dom'.revealBtn

C27_IdleSessionIsReset ==
    (summary.reported /\ ~studySession.active) =>
        studySession = [active |-> FALSE, startTime |-> Null, currentCard |-> 0,
                        cardsStudied |-> 0, correctAnswers |-> 0, cards |-> <<>>,
                        timer |-> Null]

\* C29: answerCard invoked while no session is active changes neither the
\* session nor the XP and schedules nothing
C29_AnswerWhileIdleIsNoOp ==
    [][(AnswerRan /\ ~studySession.active) =>
          /\ studySession' = studySession
          /\ userStats' = userStats
          /\ timeouts' = timeouts]_vars

\* C28: every start of a session gives a fresh session, whatever the session
\* before it held: active, at position 0, with no answer counted
C28_StartIsFresh ==
    [][StartRan =>
          /\ studySession'.active
          /\ studySession'.startTime = now
          /\ studySession'.currentCard = 0
          /\ studySession'.cardsStudied = 0
          /\ studySession'.correctAnswers = 0]_vars

\* C28 witness: a second session has been started over a session that had an
\* answer and had not ended, and it is fresh
C28_Witness ==
    /\ hist.starts = 2
    /\ ~summary.reported
    /\ hist.answersLeft <= 1
    /\ studySession.active
    /\ studySession.currentCard = 0
    /\ studySession.cardsStudied = 0
    /\ studySession.correctAnswers = 0

\* C30: the amount of every award is an integer that is not negative
C30_AwardsNotNegative ==
    /\ lastAward.amount \in Nat
    /\ summary.sessionXP \in Nat

\* C30 witness: the completion of a todo has awarded its 2 XP
C30_Witness ==
    /\ lastAward.reason = "Task completed!"
    /\ lastAward.amount = 2
    /\ \E k \in 1..Len(todoItems) : todoItems[k].completed


\* C31: a session is ended only by an End request or by the endStudySession
\* callback of its own final answer: whenever a timer callback ends an active
\* session, that session has been answered to the end of its deck (a callback
\* left over from an earlier session never ends a later one).
C31_NoStaleCallbackEndsSession ==
    [][(/\ EndRan
        /\ studySession.active
        /\ Len(timeouts') < Len(timeouts))
       => studySession.currentCard >= Len(studySession.cards)]_vars


\* C32: while a session is active the pause button label agrees with the
\* timer: the session interval runs exactly when the label reads "Pause" and
\* is stopped exactly when it reads "Resume".
C32_LabelAgreesWithTimer ==
    studySession.active =>
        /\ (dom.pauseLabel = "Pause") <=> (studySession.timer # Null)
        /\ (dom.pauseLabel = "Resume") <=> (studySession.timer = Null)


\* the step in which a pending saveAllCards completes (its finally block
\* enables the save button again)
SaveRan == dom.saveDisabled /\ ~dom'.saveDisabled /\ page' = "index"

\* C33: saveAllCards conserves cards and XP.  When a save completes,
\* savedCards is its previous value followed by exactly the generatedCards
\* present at that time, generatedCards becomes empty and the XP awarded is
\* the sum of the difficulty values of exactly those cards; at most one save
\* is pending at any time, no other step adds a card to savedCards, and no
\* save is started with no generated cards.
C33_SaveConservesCardsAndXP ==
    /\ [](Cardinality({i \in 1..Len(timeouts) :
                          timeouts[i].fn = "saveAllCards"}) <= 1)
    /\ [][/\ SaveRan =>
              LET n(d) == Cardinality({k \in 1..Len(generatedCards) :
                                          generatedCards[k].difficulty = d})
                  total == n("easy") * XP_VALUES("easy")
                           + n("medium") * XP_VALUES("medium")
                           + n("hard") * XP_VALUES("hard")
              IN  /\ savedCards' = savedCards \o generatedCards
                  /\ generatedCards' = <<>>
                  /\ lastAward'.amount = total
                  /\ lastAward'.reason = "Cards saved!"
                  /\ userStats'.xp = userStats.xp + total
          /\ ~SaveRan => savedCards' \in {savedCards, <<>>}
          /\ (~dom.saveDisabled /\ dom'.saveDisabled) => generatedCards # <<>>
       ]_vars

\* a save has completed while a generation started before its completion is
\* still pending, and it saved and awarded the cards present at completion
C33_Witness ==
    /\ dom.generating # "none"
    /\ lastAward.reason = "Cards saved!"
    /\ ~dom.saveDisabled
    /\ generatedCards = <<>>
    /\ Len(savedCards) = 2
    /\ lastAward.amount = 2 * XP_VALUES("hard")
    /\ hist.eventsLeft = 0


\* C34: a todo item earns its completion award at most once: the total XP
\* awarded with reason "Task completed!" never exceeds 2 XP per todo item
\* ever created.
C34_TodoAwardedAtMostOnce == hist.todoXP <= 2 * hist.todosMade


\* C35: the dashboard's XP-to-next-level value is in 1..100, the progress
\* percentage is in 0..99, and the XP shown as remaining is exactly what is
\* needed to reach the next level: xp + xpToNext = 100 * level.
C35_DashboardProgress ==
    /\ xpToNext \in 1..100
    /\ progressPercentage \in 0..99
    /\ userStats.xp + xpToNext = 100 * userStats.level

\* an award has raised the level and the dashboard shows a level in progress
C35_Witness ==
    /\ page = "index" /\ currentUser.loggedIn
    /\ lastAward.levelUp
    /\ userStats.level = lastAward.newLevel
    /\ progressPercentage > 0
    /\ xpToNext < 100


\* the minutes since midnight a time string "HH:MM" stands for
MinutesOf(t) ==
    ((t[1] - 48) * 10 + (t[2] - 48)) * 60 + (t[4] - 48) * 10 + (t[5] - 48)

\* the step is a call of saveTimetableItem
TimetableRan ==
    /\ hist'.lastCall.n = hist.lastCall.n + 1
    /\ hist'.lastCall.fn = "saveTimetableItem"

\* C36: every entry of timetableItems has a non-empty start time that is
\* earlier than its end time, and a call of saveTimetableItem with a missing
\* time or with a start time not before the end time reports an error and
\* leaves timetableItems unchanged.
C36_TimetableEntriesAreValid ==
    /\ [](\A k \in 1..Len(timetableItems) :
             /\ timetableItems[k].startTime # <<>>
             /\ timetableItems[k].endTime # <<>>
             /\ MinutesOf(timetableItems[k].startTime)
                  < MinutesOf(timetableItems[k].endTime))
    /\ [][TimetableRan =>
            LET startTime == hist'.lastCall.args[1]
                endTime == hist'.lastCall.args[2]
                invalid == \/ startTime = <<>>
                           \/ endTime = <<>>
                           \/ MinutesOf(startTime) >= MinutesOf(endTime)
            IN  IF invalid
                THEN /\ dom'.notification = "error"
                     /\ timetableItems' = timetableItems
                ELSE /\ Len(timetableItems') = Len(timetableItems) + 1
                     /\ dom'.notification = "success"]_vars

\* one entry has been accepted, and a later call with equal start and end
\* times has been refused
C36_Witness ==
    /\ Len(timetableItems) = 1
    /\ hist.lastCall.fn = "saveTimetableItem"
    /\ hist.lastCall.n = 2
    /\ hist.lastCall.args[1] # <<>>
    /\ hist.lastCall.args[1] = hist.lastCall.args[2]
    /\ dom.notification = "error"


\* the step is a call of handleLogin, of handleSignup
LoginRan ==
    /\ hist'.lastCall.n = hist.lastCall.n + 1
    /\ hist'.lastCall.fn = "handleLogin"

SignupRan ==
    /\ hist'.lastCall.n = hist.lastCall.n + 1
    /\ hist'.lastCall.fn = "handleSignup"

\* the text is empty or made of white space only
Blank(text) == \A k \in 1..Len(text) : text[k] \in {9, 10, 13, 32}

\* C37: on the login page, handleLogin with a username that is empty after
\* trimming or with an empty password, and handleSignup with an empty username,
\* email or password or with a password shorter than 6 characters, report an
\* error, write nothing to local storage and schedule nothing.
C37_InvalidInputIsRefused ==
    [][LET args == hist'.lastCall.args
       IN  (\/ LoginRan /\ (Blank(args[1]) \/ args[2] = <<>>)
            \/ SignupRan /\ (\/ Blank(args[1])
                             \/ Blank(args[2])
                             \/ Len(args[3]) < 6))
           => /\ dom'.notification = "error"
              /\ storage' = storage
              /\ timeouts' = timeouts
              /\ page' = page]_vars

\* handleSignup has refused a password of 5 characters given with a username
\* and an email: nothing is stored and nothing is pending
C37_Witness ==
    /\ page = "login"
    /\ hist.lastCall.fn = "handleSignup"
    /\ ~Blank(hist.lastCall.args[1])
    /\ ~Blank(hist.lastCall.args[2])
    /\ Len(hist.lastCall.args[3]) = 5
    /\ dom.notification = "error"
    /\ timeouts = <<>>
    /\ storage = EmptyStorage

\* the step is a call of handleLogout, a run of checkAuthStatus
LogoutRan ==
    /\ hist'.lastCall.n = hist.lastCall.n + 1
    /\ hist'.lastCall.fn = "handleLogout"

AuthCheckRan == hist'.authCheck.n = hist.authCheck.n + 1

\* C38: the stored auth token and the stored user record are both present or
\* both absent, and when present the token is the record's authToken; logout
\* removes both, nothing stores them again before the next login or signup
\* call, and the main page's auth check passes exactly when they are stored:
\* after a logout it fails and the browser is back on the login page.
C38_StoredAuthIsConsistent ==
    /\ [](/\ (storage.token = Null) <=> ~storage.user.present
          /\ storage.token = storage.user.authToken
          /\ hist.lastCall.fn = "handleLogout" => storage = EmptyStorage)
    /\ [][LogoutRan => storage' = EmptyStorage]_vars
    /\ [][AuthCheckRan =>
            IF storage.token = Null
            THEN /\ page' = "login"
                 /\ ~hist'.authCheck.passed
                 /\ ~currentUser'.loggedIn
            ELSE /\ page' = "index"
                 /\ hist'.authCheck.passed
                 /\ currentUser'.loggedIn
                 /\ currentUser'.level = storage.user.level
                 /\ currentUser'.xp = storage.user.xp]_vars

\* after two calls of the login page's handlers the main page was loaded and
\* left by a logout, and the auth check of a later visit has failed
C38_Witness ==
    /\ page = "login"
    /\ hist.lastCall.fn = "handleLogout"
    /\ hist.lastCall.n = 3
    /\ hist.authCheck.n = 2
    /\ ~hist.authCheck.passed
    /\ storage = EmptyStorage

====
